---- MODULE Spec2Model ----
\* A model of app.py: the Streamlit script of the Java design-pattern teaching
\* tool.  Every user interaction reruns the whole script; st.session_state and
\* the keyed widget store are what survives from one run to the next.
\*
\* Text is modelled as a sequence of lexemes (one-character strings, or a whole
\* word standing for a run of ordinary characters that no operation of the
\* script ever cuts).  Non-ASCII characters of the source are transliterated:
\*   "### 优化解读"  is  <<"#","#","#"," ","you","hua","jie","du">>.
\* Python values are tagged records [t |-> type, v |-> payload]:
\*   str: v is the lexeme sequence;         obj (dict): v is a sequence of
\*   [k |-> key lexemes, v |-> value] in insertion order; arr (list): v is a
\*   sequence of values; num: v is the literal's lexemes; true/false/None: <<>>.
\*
\* The model starts after the configuration block (lines 15-31) has found and
\* accepted the API key; without one the script stops before any widget.
\* Nothing inside the try block of tab2 raises, so its except branch (lines
\* 165-167) has no step here.
EXTENDS Integers, Sequences, FiniteSets, TLC

VARIABLES
    quiz_data,   \* st.session_state.quiz_data
    widgets,     \* the widget store: the st.radio state kept under radio_key
    event,       \* the interaction that caused the last script run, its
                 \* inputs, and the session as it was before the run
    screen,      \* what the last script run displayed, per tab
    fault        \* the exception the last script run ended with, or "none"

vars == <<quiz_data, widgets, event, screen, fault>>

\* ---------------------------------------------------------------- values

None == [t |-> "None", v |-> <<>>]
Str(s) == [t |-> "str", v |-> s]
Num(s) == [t |-> "num", v |-> s]
Obj(members) == [t |-> "obj", v |-> members]
Arr(items) == [t |-> "arr", v |-> items]
PyTrue == [t |-> "true", v |-> <<>>]
PyFalse == [t |-> "false", v |-> <<>>]

Q == "\""
NL == "\n"
Whitespace == {" ", NL}

\* bool(x)
Truthy(x) ==
    CASE x.t = "None" -> FALSE
      [] x.t = "false" -> FALSE
      [] x.t = "true" -> TRUE
      [] x.t = "num" -> \E i \in 1..Len(x.v) : x.v[i] # "0"
      [] OTHER -> Len(x.v) > 0

\* ---------------------------------------------------------------- str methods

\* s[i:] starts with old
StartsAt(s, i, old) ==
    /\ i + Len(old) - 1 <= Len(s)
    /\ SubSeq(s, i, i + Len(old) - 1) = old

\* s.find(old), 1-based; 0 when absent
find(s, old) ==
    LET hits == {i \in 1..Len(s) : StartsAt(s, i, old)}
    IN  IF hits = {} THEN 0 ELSE CHOOSE i \in hits : \A j \in hits : i <= j

RECURSIVE split(_, _)
\* s.split(sep): left to right, non-overlapping
split(s, sep) ==
    LET i == find(s, sep)
    IN  IF i = 0 THEN <<s>>
        ELSE <<SubSeq(s, 1, i - 1)>> \o split(SubSeq(s, i + Len(sep), Len(s)), sep)

RECURSIVE join(_, _)
join(parts, new) ==
    IF Len(parts) = 0 THEN <<>>
    ELSE IF Len(parts) = 1 THEN parts[1]
    ELSE parts[1] \o new \o join(Tail(parts), new)

\* s.replace(old, new)
replace(s, old, new) == join(split(s, old), new)

RECURSIVE lstrip(_)
lstrip(s) ==
    IF Len(s) > 0 /\ s[1] \in Whitespace THEN lstrip(Tail(s)) ELSE s

RECURSIVE rstrip(_)
rstrip(s) ==
    IF Len(s) > 0 /\ s[Len(s)] \in Whitespace
    THEN rstrip(SubSeq(s, 1, Len(s) - 1)) ELSE s

\* s.strip()
strip(s) == rstrip(lstrip(s))

\* ---------------------------------------------------------------- display

\* one element put on the page: st.error, st.markdown, st.text, ...
Show(kind, text) == [kind |-> kind, text |-> text]

NoFault == "none"

\* ---------------------------------------------------------------- gateway

\* what model.generate_content(prompt).text produced: Str(text), or None
\* when the call raised
GenerateFailed(result) == result = None

\* generate_content(prompt): the text, or None after st.error
generate_content(result) ==
    [text |-> result,
     out |-> IF GenerateFailed(result)
             THEN <<Show("error", <<"AI generation failed">>)>>
             ELSE <<>>]

\* ---------------------------------------------------------------- tab1

Tab1Section(pressed, result) ==
    IF ~pressed THEN <<>>
    ELSE LET g == generate_content(result)
         IN  g.out \o (IF Truthy(g.text)
                       THEN <<Show("markdown", g.text.v)>>
                       ELSE <<>>)

\* ---------------------------------------------------------------- tab2

Marker == <<"#", "#", "#", " ", "you", "hua", "jie", "du">>

SplitOkLoose(parts) == Len(parts) >= 2

\* len(parts) == 2
SplitOk(parts) == Len(parts) = 2

ExplanationPartBare(parts) == parts[2]

\* "### 优化解读" + parts[1]
ExplanationPart(parts) == Marker \o parts[2]

Tab2Section(pressed, original_code, result) ==
    IF ~pressed THEN <<>>
    ELSE IF strip(original_code) = <<>>
    THEN <<Show("warning", <<"please enter the original code">>)>>
    ELSE LET g == generate_content(result)
             parts == split(g.text.v, Marker)
         IN  g.out \o
             (IF ~Truthy(g.text) THEN <<>>
              ELSE IF SplitOk(parts)
              THEN <<Show("subheader", <<"original code">>),
                     Show("code", original_code),
                     Show("subheader", <<"optimized code">>),
                     Show("markdown", parts[1]),
                     Show("divider", <<>>),
                     Show("markdown", ExplanationPart(parts))>>
              ELSE <<Show("error", <<"AI format error: cannot parse">>),
                     Show("text", g.text.v)>>)

\* ---------------------------------------------------------------- dict, list

RECURSIVE IndexOfKey(_, _, _)
\* position of key k among the members from i on; 0 when absent
IndexOfKey(members, k, i) ==
    IF i > Len(members) THEN 0
    ELSE IF members[i].k = k THEN i
    ELSE IndexOfKey(members, k, i + 1)

\* k in d, for a dict d
HasKey(d, k) == IndexOfKey(d.v, k, 1) # 0

\* d[k], for a dict d that has k
Get(d, k) == d.v[IndexOfKey(d.v, k, 1)].v

\* d[k] = val: a new key goes last, a known key keeps its place
dict_set(members, k, val) ==
    LET i == IndexOfKey(members, k, 1)
    IN  IF i = 0 THEN Append(members, [k |-> k, v |-> val])
        ELSE [members EXCEPT ![i] = [k |-> k, v |-> val]]

\* a == b on values
PyEq(a, b) == a.t = b.t /\ a.v = b.v

\* ---------------------------------------------------------------- json.loads

Digits == {"0", "1", "2"}

ParseFail == [ok |-> FALSE, val |-> None, end |-> 0]
ParseOk(val, end) == [ok |-> TRUE, val |-> val, end |-> end]

At(s, i) == IF i >= 1 /\ i <= Len(s) THEN s[i] ELSE "EOF"

RECURSIVE skip_ws(_, _)
skip_ws(s, i) ==
    IF i <= Len(s) /\ s[i] \in Whitespace THEN skip_ws(s, i + 1) ELSE i

\* a string literal whose opening quote is s[i]; a raw newline inside is a
\* control character and an error (escapes are outside the alphabet)
scanstring(s, i) ==
    LET closers == {j \in (i + 1)..Len(s) : s[j] = Q}
        j == CHOOSE c \in closers : \A d \in closers : c <= d
    IN  IF closers = {} THEN ParseFail
        ELSE IF \E k \in (i + 1)..(j - 1) : s[k] = NL THEN ParseFail
        ELSE ParseOk(Str(SubSeq(s, i + 1, j - 1)), j + 1)

RECURSIVE digits_end(_, _)
digits_end(s, i) ==
    IF i + 1 <= Len(s) /\ s[i + 1] \in Digits THEN digits_end(s, i + 1) ELSE i

\* an integer literal starting at s[i]; after a leading 0 no digit may follow
scannumber(s, i) ==
    LET j == digits_end(s, i)
    IN  IF s[i] = "0" /\ j > i THEN ParseFail
        ELSE ParseOk(Num(SubSeq(s, i, j)), j + 1)

RECURSIVE scan_once(_, _)
RECURSIVE JSONObject(_, _)
RECURSIVE object_members(_, _, _)
RECURSIVE JSONArray(_, _)
RECURSIVE array_items(_, _, _)

\* one JSON value starting at s[i]
scan_once(s, i) ==
    LET c == At(s, i)
    IN  CASE c = Q -> scanstring(s, i)
          [] c = "{" -> JSONObject(s, i)
          [] c = "[" -> JSONArray(s, i)
          [] c = "null" -> ParseOk(None, i + 1)
          [] c = "true" -> ParseOk(PyTrue, i + 1)
          [] c = "false" -> ParseOk(PyFalse, i + 1)
          [] c \in Digits -> scannumber(s, i)
          [] OTHER -> ParseFail

\* s[i] = "{"
JSONObject(s, i) ==
    LET j == skip_ws(s, i + 1)
    IN  IF At(s, j) = "}" THEN ParseOk(Obj(<<>>), j + 1)
        ELSE IF At(s, j) # Q THEN ParseFail
        ELSE object_members(s, j, <<>>)

\* s[j] is the quote opening the next key
object_members(s, j, acc) ==
    LET key == scanstring(s, j)
        k1 == skip_ws(s, key.end)
        k2 == skip_ws(s, k1 + 1)
        val == scan_once(s, k2)
        k3 == skip_ws(s, val.end)
        acc2 == dict_set(acc, key.val.v, val.val)
        k4 == skip_ws(s, k3 + 1)
    IN  IF ~key.ok THEN ParseFail
        ELSE IF At(s, k1) # ":" THEN ParseFail
        ELSE IF ~val.ok THEN ParseFail
        ELSE IF At(s, k3) = "}" THEN ParseOk(Obj(acc2), k3 + 1)
        ELSE IF At(s, k3) # "," THEN ParseFail
        ELSE IF At(s, k4) # Q THEN ParseFail
        ELSE object_members(s, k4, acc2)

\* s[i] = "["
JSONArray(s, i) ==
    LET j == skip_ws(s, i + 1)
    IN  IF At(s, j) = "]" THEN ParseOk(Arr(<<>>), j + 1)
        ELSE array_items(s, j, <<>>)

array_items(s, j, acc) ==
    LET val == scan_once(s, j)
        k1 == skip_ws(s, val.end)
        acc2 == Append(acc, val.val)
        k2 == skip_ws(s, k1 + 1)
    IN  IF ~val.ok THEN ParseFail
        ELSE IF At(s, k1) = "]" THEN ParseOk(Arr(acc2), k1 + 1)
        ELSE IF At(s, k1) # "," THEN ParseFail
        ELSE array_items(s, k2, acc2)

\* json.loads(s): ok = FALSE stands for json.JSONDecodeError
json_loads(s) ==
    LET r == scan_once(s, skip_ws(s, 1))
    IN  IF ~r.ok THEN ParseFail
        ELSE IF skip_ws(s, r.end) <= Len(s) THEN ParseFail
        ELSE r

\* ---------------------------------------------------------------- formatting

RECURSIVE repr(_)
RECURSIVE repr_items(_, _)
RECURSIVE repr_members(_, _)

\* repr(x)
repr(x) ==
    CASE x.t = "str" -> <<"'">> \o x.v \o <<"'">>
      [] x.t = "num" -> x.v
      [] x.t = "true" -> <<"True">>
      [] x.t = "false" -> <<"False">>
      [] x.t = "None" -> <<"None">>
      [] x.t = "arr" -> <<"[">> \o repr_items(x.v, 1) \o <<"]">>
      [] x.t = "obj" -> <<"{">> \o repr_members(x.v, 1) \o <<"}">>

repr_items(items, i) ==
    IF i > Len(items) THEN <<>>
    ELSE repr(items[i])
         \o (IF i < Len(items) THEN <<",", " ">> ELSE <<>>)
         \o repr_items(items, i + 1)

repr_members(members, i) ==
    IF i > Len(members) THEN <<>>
    ELSE repr(Str(members[i].k)) \o <<":", " ">> \o repr(members[i].v)
         \o (IF i < Len(members) THEN <<",", " ">> ELSE <<>>)
         \o repr_members(members, i + 1)

\* f"{x}": str(x)
format(x) == IF x.t = "str" THEN x.v ELSE repr(x)

UpperOf(c) ==
    CASE c = "a" -> "A" [] c = "b" -> "B" [] c = "c" -> "C" [] c = "d" -> "D"
      [] OTHER -> c

LowerOf(c) ==
    CASE c = "A" -> "a" [] c = "B" -> "b" [] c = "C" -> "c" [] c = "D" -> "d"
      [] OTHER -> c

\* s.upper(), s.lower()
upper(s) == [i \in 1..Len(s) |-> UpperOf(s[i])]
lower(s) == [i \in 1..Len(s) |-> LowerOf(s[i])]

\* ---------------------------------------------------------------- inputs

\* the backtick character is written "bt"
BT == "bt"
Fence == <<BT, BT, BT>>
FenceJson == <<BT, BT, BT, "json">>

RECURSIVE dumps(_)
RECURSIVE dumps_items(_, _)
RECURSIVE dumps_members(_, _)

\* the JSON text of a value, as the model service writes it
dumps(x) ==
    CASE x.t = "str" -> <<Q>> \o x.v \o <<Q>>
      [] x.t = "num" -> x.v
      [] x.t = "true" -> <<"true">>
      [] x.t = "false" -> <<"false">>
      [] x.t = "None" -> <<"null">>
      [] x.t = "arr" -> <<"[">> \o dumps_items(x.v, 1) \o <<"]">>
      [] x.t = "obj" -> <<"{", NL>> \o dumps_members(x.v, 1) \o <<NL, "}">>

dumps_items(items, i) ==
    IF i > Len(items) THEN <<>>
    ELSE dumps(items[i])
         \o (IF i < Len(items) THEN <<",", " ">> ELSE <<>>)
         \o dumps_items(items, i + 1)

dumps_members(members, i) ==
    IF i > Len(members) THEN <<>>
    ELSE <<Q>> \o members[i].k \o <<Q, ":", " ">> \o dumps(members[i].v)
         \o (IF i < Len(members) THEN <<",", NL>> ELSE <<>>)
         \o dumps_members(members, i + 1)

\* the text inside a JSON code block
Fenced(text) == FenceJson \o <<NL>> \o text \o <<NL>> \o Fence

M(k, v) == [k |-> k, v |-> v]

FullExplanation ==
    Obj(<<M(<<"correct">>, Str(<<"because">>)),
          M(<<"incorrect_", "A">>, Str(<<"not A">>)),
          M(<<"incorrect_", "B">>, Str(<<"not B">>)),
          M(<<"incorrect_", "c">>, Str(<<"not C">>))>>)

ThreeOptions(labelA) ==
    Obj(<<M(<<"A">>, Str(labelA)),
          M(<<"B">>, Str(<<"Singleton">>)),
          M(<<"C">>, Str(<<"Prototype">>))>>)

Quiz(scene, options, answer, explanation) ==
    Obj(<<M(<<"scene">>, Str(scene)),
          M(<<"question">>, Str(<<"which pattern fits?">>)),
          M(<<"options">>, options),
          M(<<"answer">>, answer),
          M(<<"explanation">>, explanation)>>)

\* quiz objects of the wire format: three distinct option keys, the answer
\* one of them; the last two carry code fences inside an option label
WellFormedQuizzes ==
    <<Quiz(<<"s1">>, ThreeOptions(<<"FactoryMethod">>), Str(<<"A">>), FullExplanation),
      Quiz(<<"s1">>, ThreeOptions(<<"FactoryMethod">>), Str(<<"B">>), FullExplanation),
      Quiz(<<"s2">>, ThreeOptions(<<"FactoryMethod">>), Str(<<"C">>), FullExplanation),
      Quiz(<<"s3">>, ThreeOptions(Fence \o <<"java">> \o Fence), Str(<<"A">>),
           FullExplanation),
      Quiz(<<"s4">>, ThreeOptions(<<"use ">> \o FenceJson), Str(<<"B">>),
           FullExplanation)>>

WellFormedTexts ==
    {dumps(WellFormedQuizzes[i]) : i \in 1..Len(WellFormedQuizzes)}
    \cup {Fenced(dumps(WellFormedQuizzes[i])) : i \in {1, 4}}

\* JSON objects that break the wire format
MalformedQuizzes ==
    <<\* no explanation key
      Obj(<<M(<<"scene">>, Str(<<"s5">>)),
            M(<<"question">>, Str(<<"which pattern fits?">>)),
            M(<<"options">>, ThreeOptions(<<"FactoryMethod">>)),
            M(<<"answer">>, Str(<<"A">>))>>),
      \* the empty object
      Obj(<<>>),
      \* the answer is no option key
      Quiz(<<"s6">>, ThreeOptions(<<"FactoryMethod">>), Str(<<"D">>), FullExplanation),
      \* options is a list
      Quiz(<<"s7">>, Arr(<<Str(<<"A">>), Str(<<"B">>), Str(<<"C">>)>>), Str(<<"A">>),
           FullExplanation),
      \* explanation has no "correct"
      Quiz(<<"s8">>, ThreeOptions(<<"FactoryMethod">>), Str(<<"A">>),
           Obj(<<M(<<"incorrect_", "B">>, Str(<<"not B">>))>>)),
      \* explanation is a string
      Quiz(<<"s9">>, ThreeOptions(<<"FactoryMethod">>), Str(<<"A">>),
           Str(<<"because">>)),
      \* an option key with a colon in it
      Quiz(<<"s10">>,
           Obj(<<M(<<"A", ":", "1">>, Str(<<"FactoryMethod">>)),
                 M(<<"A">>, Str(<<"Singleton">>))>>),
           Str(<<"A", ":", "1">>), FullExplanation),
      \* not an object: a number, a list of the five key names
      Num(<<"1">>),
      Arr(<<Str(<<"scene">>), Str(<<"question">>), Str(<<"options">>),
            Str(<<"answer">>), Str(<<"explanation">>)>>)>>

\* texts json.loads rejects: prose, and an object cut short
BrokenTexts ==
    {<<"Sorry", ",", " ", "I", " ", "cannot">>,
     SubSeq(dumps(WellFormedQuizzes[1]), 1, 12)}

QuizTexts ==
    WellFormedTexts
    \cup {dumps(MalformedQuizzes[i]) : i \in 1..Len(MalformedQuizzes)}
    \cup BrokenTexts

\* what the quiz generation call can come back with
QuizResults == {None, Str(<<>>)} \cup {Str(t) : t \in QuizTexts}

ScenarioResults == {None, Str(<<>>), Str(<<"#", "#", "#", " ", "scenario">>)}

JavaCode == <<"class", " ", "X", " ", "{", "}">>

OriginalCodes == {<<>>, <<" ", NL>>, JavaCode}

RefactorResults ==
    {None,
     Str(<<"code", NL>> \o Marker \o <<NL, "why">>),
     Str(<<"code", NL, "why">>),
     Str(Marker \o <<"a">> \o Marker)}

\* ---------------------------------------------------------------- tab3: press

ResetQuizKeep(q) == q

\* st.session_state.quiz_data = None  (reset the question)
ResetQuiz(q) == None

\* response_text.strip().replace(FenceJson, "").replace(Fence, "")
clean_text(response_text) ==
    replace(replace(strip(response_text), FenceJson, <<>>), Fence, <<>>)

\* clean_text, then json.loads(clean_text)
decode(response_text) == json_loads(clean_text(response_text))

\* decode, worked out once for every text the service can answer with
Decoded == [t \in QuizTexts |-> decode(t)]

\* the body of  if st.button("start / next"):  session value and messages
Tab3Press(pressed, result, quiz0) ==
    IF ~pressed THEN [quiz_data |-> quiz0, out |-> <<>>]
    ELSE LET reset == ResetQuiz(quiz0)
             g == generate_content(result)
             parsed == Decoded[g.text.v]
         IN  IF ~Truthy(g.text) THEN [quiz_data |-> reset, out |-> g.out]
             ELSE IF parsed.ok THEN [quiz_data |-> parsed.val, out |-> <<>>]
             ELSE [quiz_data |-> None,
                   out |-> <<Show("error", <<"quiz generation failed: bad JSON">>),
                             Show("text", <<"raw text received:", NL>> \o g.text.v)>>]

\* ---------------------------------------------------------------- tab3: render

RequiredKeys == <<"scene", "question", "options", "answer", "explanation">>

\* the widget store holds at most the one st.radio of the page
NoRadio == [on |-> FALSE, key |-> <<>>, options |-> <<>>, index |-> 0]

\* k in q, for q a dict, a list or a str
contains(q, k) ==
    CASE q.t = "obj" -> HasKey(q, k)
      [] q.t = "arr" -> \E i \in 1..Len(q.v) : PyEq(q.v[i], Str(k))
      [] q.t = "str" -> find(q.v, k) # 0

\* all(k in q for k in [...])
all_keys(q) == \A i \in 1..Len(RequiredKeys) : contains(q, <<RequiredKeys[i]>>)

\* [f"{key}: {value}" for key, value in q['options'].items()]
options_list(options) ==
    [i \in 1..Len(options.v) |->
        options.v[i].k \o <<":", " ">> \o format(options.v[i].v)]

\* f"quiz_{q['scene']}"
radio_key(q) == <<"quiz_">> \o format(Get(q, <<"scene">>))

st_radio_unset(options, key, stored) ==
    [on |-> TRUE, key |-> key, options |-> options, index |-> 0]

\* st.radio(label, options, key=key, index=None): a widget with the key and
\* options of the stored one keeps the stored choice; any other starts unset
st_radio(options, key, stored) ==
    [on |-> TRUE, key |-> key, options |-> options,
     index |-> IF stored.on /\ stored.key = key /\ stored.options = options
               THEN stored.index ELSE 0]

\* user_choice.split(":")[0]
user_answer_key(user_choice) == split(user_choice, <<":">>)[1]

GradeInverted(key, answer) == ~(answer.t = "str" /\ key = answer.v)

\* user_answer_key == q['answer']
Grade(key, answer) == answer.t = "str" /\ key = answer.v

MsgWrong == "wrong! the answer is "
MsgRight == "correct! the answer is "

Verdict(key, answer) ==
    IF Grade(key, answer)
    THEN Show("success", <<MsgRight>> \o format(answer))
    ELSE Show("error", <<MsgWrong>> \o format(answer))

RECURSIVE wrong_options(_, _, _, _)
\* the loop over q['options'].items() inside the expander
wrong_options(options, answer, explanation, i) ==
    IF i > Len(options.v) THEN <<>>
    ELSE LET key == options.v[i].k
             value == options.v[i].v
             up == <<"incorrect_">> \o upper(key)
             explanation_key == IF ~HasKey(explanation, up)
                                THEN <<"incorrect_">> \o lower(key) ELSE up
         IN  (IF ~PyEq(Str(key), answer) /\ HasKey(explanation, explanation_key)
              THEN <<Show("markdown", <<"---">>),
                     Show("markdown", <<"why not ">> \o key \o <<" (">>
                                      \o format(value) \o <<")?">>),
                     Show("write", format(Get(explanation, explanation_key)))>>
              ELSE <<>>)
             \o wrong_options(options, answer, explanation, i + 1)

\* the body of  with st.expander(...)
Expander(q) ==
    LET options == Get(q, <<"options">>)
        answer == Get(q, <<"answer">>)
        explanation == Get(q, <<"explanation">>)
    IN  IF answer.t \in {"arr", "obj"}
        THEN [out |-> <<>>, fault |-> "TypeError"]
        ELSE IF ~(answer.t = "str" /\ HasKey(options, answer.v))
        THEN [out |-> <<>>, fault |-> "KeyError"]
        ELSE LET why == Show("markdown", <<"why ">> \o format(answer) \o <<" (">>
                              \o format(Get(options, answer.v)) \o <<")?">>)
             IN  IF explanation.t # "obj"
                 THEN [out |-> <<why>>, fault |-> "TypeError"]
                 ELSE IF ~HasKey(explanation, <<"correct">>)
                 THEN [out |-> <<why>>, fault |-> "KeyError"]
                 ELSE [out |-> <<why, Show("write",
                                      format(Get(explanation, <<"correct">>)))>>
                               \o wrong_options(options, answer, explanation, 1),
                       fault |-> NoFault]

\* the body of  if st.session_state.quiz_data:  for a complete dict q
RenderQuiz(q, stored) ==
    LET head == <<Show("markdown", <<"scene: ">> \o format(Get(q, <<"scene">>))),
                  Show("markdown", <<"question: ">>
                                   \o format(Get(q, <<"question">>)))>>
        options == Get(q, <<"options">>)
        radio == st_radio(options_list(options), radio_key(q), stored)
        shown == head \o <<Show("radio", radio.key)>>
        user_choice == radio.options[radio.index]
        answer == Get(q, <<"answer">>)
        graded == shown \o <<Verdict(user_answer_key(user_choice), answer)>>
        ex == Expander(q)
    IN  IF options.t # "obj"
        THEN [out |-> head, fault |-> "AttributeError", widgets |-> stored]
        ELSE IF radio.index = 0
        THEN [out |-> shown, fault |-> NoFault, widgets |-> radio]
        ELSE [out |-> graded \o ex.out, fault |-> ex.fault, widgets |-> radio]

\* lines 216-255; a widget that a completed run did not render is dropped
\* from the store, a run that stops on an exception drops nothing
Tab3Render(q, stored) ==
    IF ~Truthy(q)
    THEN [out |-> <<>>, fault |-> NoFault, widgets |-> NoRadio]
    ELSE IF q.t \in {"num", "true"}
    THEN [out |-> <<>>, fault |-> "TypeError", widgets |-> stored]
    ELSE IF ~all_keys(q)
    THEN [out |-> <<Show("error", <<"quiz data structure incomplete">>)>>,
          fault |-> NoFault, widgets |-> NoRadio]
    ELSE IF q.t # "obj"
    THEN [out |-> <<>>, fault |-> "TypeError", widgets |-> stored]
    ELSE RenderQuiz(q, stored)

\* ---------------------------------------------------------------- script run

\* how many times the run calls generate_content: once in the handler of
\* the pressed button (tab2: only past the blank-code check), never elsewhere
GenCalls(op, original_code) ==
    IF op \in {"tab1", "tab3"} THEN 1
    ELSE IF op = "tab2" /\ strip(original_code) # <<>> THEN 1
    ELSE 0

\* one run of the script after the interaction op
Run(op, result, original_code, stored) ==
    LET gen == Tab3Press(op = "tab3", result, quiz_data)
        page == Tab3Render(gen.quiz_data, stored)
    IN  /\ quiz_data' = gen.quiz_data
        /\ widgets' = page.widgets
        /\ screen' = [tab1 |-> Tab1Section(op = "tab1", result),
                      tab2 |-> Tab2Section(op = "tab2", original_code, result),
                      tab3 |-> gen.out \o page.out]
        /\ fault' = page.fault
        /\ event' = [op |-> op, response_text |-> result,
                     original_code |-> original_code, index |-> stored.index,
                     gen_calls |-> GenCalls(op, original_code),
                     before |-> [quiz_data |-> quiz_data, index |-> widgets.index]]

\* ---------------------------------------------------------------- actions

Init ==
    /\ quiz_data = None
    /\ widgets = NoRadio
    /\ event = [op |-> "load", response_text |-> None, original_code |-> <<>>,
                index |-> 0, gen_calls |-> 0,
                before |-> [quiz_data |-> None, index |-> 0]]
    /\ screen = [tab1 |-> <<>>, tab2 |-> <<>>, tab3 |-> <<>>]
    /\ fault = NoFault

\* the "generate scenario" button of tab1
PressTab1 ==
    \E result \in ScenarioResults : Run("tab1", result, <<>>, widgets)

\* the "generate optimized code" button of tab2
PressTab2 ==
    \E original_code \in OriginalCodes, result \in RefactorResults :
        Run("tab2", result, original_code, widgets)

\* the "start / next" button of tab3
PressTab3 ==
    \E result \in QuizResults : Run("tab3", result, <<>>, widgets)

RadioShown == \E i \in 1..Len(screen.tab3) : screen.tab3[i].kind = "radio"

\* the user picks another option of the radio on the page
SelectOption ==
    /\ RadioShown
    /\ \E i \in 1..Len(widgets.options) :
        /\ i # widgets.index
        /\ Run("select", None, <<>>, [widgets EXCEPT !.index = i])

Next == PressTab1 \/ PressTab2 \/ PressTab3 \/ SelectOption

Spec == Init /\ [][Next]_vars

\* ---------------------------------------------------------------- the split alone

\* the refactor flow on bounded response texts: the page as loaded, with one
\* response of the service pending; the only step is the press of the tab2
\* button that receives it
MaxPieces == 3

MarkerHead == SubSeq(Marker, 1, Len(Marker) - 1)

Pieces == <<Marker, MarkerHead, <<"du">>, <<"#">>, <<"code">>, <<NL>>>>

RECURSIVE TextsOf(_)
\* the texts made of at most n pieces
TextsOf(n) ==
    IF n = 0 THEN {<<>>}
    ELSE LET shorter == TextsOf(n - 1)
         IN  shorter \cup {t \o Pieces[i] : t \in shorter, i \in 1..Len(Pieces)}

SplitInit ==
    /\ quiz_data = None
    /\ widgets = NoRadio
    /\ \E t \in TextsOf(MaxPieces), code \in {JavaCode, <<NL>>} :
        event = [op |-> "pending", response_text |-> Str(t), original_code |-> code,
                 index |-> 0, gen_calls |-> 0,
                 before |-> [quiz_data |-> None, index |-> 0]]
    /\ screen = [tab1 |-> <<>>, tab2 |-> <<>>, tab3 |-> <<>>]
    /\ fault = NoFault

SplitNext ==
    /\ event.op = "pending"
    /\ Run("tab2", event.response_text, event.original_code, widgets)

SplitSpec == SplitInit /\ [][SplitNext]_vars

\* ---------------------------------------------------------------- properties

Shown(tab, kind) == \E i \in 1..Len(tab) : tab[i].kind = kind

RightShown ==
    \E i \in 1..Len(screen.tab3) :
        screen.tab3[i].kind = "success" /\ screen.tab3[i].text[1] = MsgRight

WrongShown ==
    \E i \in 1..Len(screen.tab3) :
        /\ screen.tab3[i].kind = "error"
        /\ screen.tab3[i].text # <<>>
        /\ screen.tab3[i].text[1] = MsgWrong

\* the last run was a press of start/next whose response decoded to JSON
DecodedNow ==
    /\ event.op = "tab3"
    /\ Truthy(event.response_text)
    /\ Decoded[event.response_text.v].ok

Letters == {"A", "B", "C", "D"}

\* q is a QuizRecord of the data model: the five keys, options a mapping with
\* single-letter keys, the answer one of them, an explanation with "correct"
IsQuizRecord(q) ==
    /\ q.t = "obj"
    /\ all_keys(q)
    /\ Get(q, <<"options">>).t = "obj"
    /\ \A i \in 1..Len(Get(q, <<"options">>).v) :
          /\ Len(Get(q, <<"options">>).v[i].k) = 1
          /\ Get(q, <<"options">>).v[i].k[1] \in Letters
    /\ Get(q, <<"answer">>).t = "str"
    /\ HasKey(Get(q, <<"options">>), Get(q, <<"answer">>).v)
    /\ Get(q, <<"explanation">>).t = "obj"
    /\ HasKey(Get(q, <<"explanation">>), <<"correct">>)

\* C1: after any presses and selections, a question decoded by a press of
\* start/next is first shown with no option selected and no grading verdict,
\* also when its scene text is the scene text of the previous record.
C1_NewQuestionShownUnanswered ==
    (DecodedNow /\ IsQuizRecord(quiz_data)
       /\ IsQuizRecord(event.before.quiz_data)) =>
        (widgets.index = 0 /\ ~RightShown /\ ~WrongShown)

\* C2 (as claimed): a failed generation call of start/next raises nothing and
\* leaves the record that was in the session in the session.
C2_FailedGenerationKeepsRecord ==
    (event.op = "tab3" /\ GenerateFailed(event.response_text)
       /\ IsQuizRecord(event.before.quiz_data)) =>
        (fault = NoFault /\ quiz_data = event.before.quiz_data)

\* C2 (amended): a failed generation call of start/next raises nothing and
\* leaves no record in the session: the record that was there is discarded
\* before the call, and only the gateway's error message is shown in tab3.
C2_FailedGenerationDiscardsRecord ==
    (event.op = "tab3" /\ GenerateFailed(event.response_text)
       /\ IsQuizRecord(event.before.quiz_data)) =>
        /\ fault = NoFault
        /\ quiz_data = None
        /\ screen.tab3 = generate_content(None).out

C2_Witness ==
    /\ event.op = "tab3" /\ GenerateFailed(event.response_text)
    /\ IsQuizRecord(event.before.quiz_data)
    /\ event.before.index # 0

\* C3: a response that parses as a JSON object lacking one of the five keys
\* stores no record in the session; the page shows an error and nothing of
\* the question.
C3_IncompleteJsonStoresNothing ==
    (DecodedNow
       /\ Decoded[event.response_text.v].val.t = "obj"
       /\ ~all_keys(Decoded[event.response_text.v].val)) =>
        /\ quiz_data = None
        /\ Shown(screen.tab3, "error")
        /\ ~Shown(screen.tab3, "markdown")
        /\ ~RadioShown

\* the places where the marker occurs in text
Occurrences(text) == {i \in 1..Len(text) : StartsAt(text, i, Marker)}

\* the last run was a press of the tab2 button that got the text below
SplitNow ==
    /\ event.op = "tab2"
    /\ strip(event.original_code) # <<>>
    /\ event.response_text.t = "str"
    /\ event.response_text.v # <<>>

\* C4: a response text with exactly one marker is split at it: the optimized
\* code shown is the text before the marker, the explanation shown is the
\* marker and the text after it, the two do not overlap and together they
\* are the response text.
C4_SplitAtSingleMarker ==
    (SplitNow /\ Cardinality(Occurrences(event.response_text.v)) = 1) =>
        LET text == event.response_text.v
            at == CHOOSE i \in Occurrences(text) : TRUE
            optimizedCode == screen.tab2[4]
            explanation == screen.tab2[6]
        IN  /\ Len(screen.tab2) = 6
            /\ screen.tab2[2] = Show("code", event.original_code)
            /\ optimizedCode = Show("markdown", SubSeq(text, 1, at - 1))
            /\ explanation = Show("markdown", SubSeq(text, at, Len(text)))
            /\ Len(optimizedCode.text) + Len(explanation.text) = Len(text)
            /\ optimizedCode.text \o explanation.text = text

C4_Witness ==
    /\ SplitNow
    /\ \E i \in 2..Len(event.response_text.v) :
          /\ Occurrences(event.response_text.v) = {i}
          /\ i + Len(Marker) <= Len(event.response_text.v)
    /\ Len(screen.tab2) = 6

\* C5: a non-empty response text with no marker, or with more than one, ends
\* in the parse-error outcome without a fault: no optimized code and no
\* explanation are shown, only the notice and the raw text as received.
C5_ParseErrorShowsRawText ==
    (SplitNow /\ Cardinality(Occurrences(event.response_text.v)) # 1) =>
        /\ fault = NoFault
        /\ screen.tab2 = <<Show("error", <<"AI format error: cannot parse">>),
                           Show("text", event.response_text.v)>>

C5_Witness ==
    /\ SplitNow
    /\ Cardinality(Occurrences(event.response_text.v)) = 2
    /\ Shown(screen.tab2, "text")

\* C6: a well-formed quiz JSON text (three distinct option keys, the answer
\* one of them), bare or inside a JSON code block, and also when a string
\* value contains a code fence, decodes to a record with the answer of the
\* input and with the option keys, order and labels of the input.
C6_DecodePreservesAnswerAndOptions ==
    \A i \in 1..Len(WellFormedQuizzes) :
        (event.op = "tab3"
           /\ event.response_text \in {Str(dumps(WellFormedQuizzes[i])),
                                       Str(Fenced(dumps(WellFormedQuizzes[i])))}) =>
            /\ quiz_data.t = "obj"
            /\ HasKey(quiz_data, <<"answer">>)
            /\ HasKey(quiz_data, <<"options">>)
            /\ Get(quiz_data, <<"answer">>) = Get(WellFormedQuizzes[i], <<"answer">>)
            /\ Get(quiz_data, <<"options">>) = Get(WellFormedQuizzes[i], <<"options">>)

\* C7: a record of the session that is put on the page has an answer that is
\* one of its option keys.
C7_AnswerIsOptionKey ==
    (quiz_data.t = "obj" /\ all_keys(quiz_data)
       /\ Get(quiz_data, <<"options">>).t = "obj" /\ RadioShown) =>
        /\ Get(quiz_data, <<"answer">>).t = "str"
        /\ HasKey(Get(quiz_data, <<"options">>), Get(quiz_data, <<"answer">>).v)

\* C8: no run of the script ends in an uncaught exception, whatever text the
\* generation call returned and whatever the user selected afterwards.
C8_NoUncaughtFault == fault = NoFault

\* C9 (as claimed): once a record has a selected answer, no user action
\* changes it to another option of that record.
C9_SelectionSetAtMostOnce ==
    (event.op = "select" /\ IsQuizRecord(quiz_data)
       /\ event.before.index # 0) =>
        widgets.index = event.before.index

\* C9 (amended): the selected answer of a record can be set again: every
\* selection of the user stores the option picked, one of the record's
\* options, also when another option was selected before, and it leaves the
\* record itself as it was.
C9_SelectionFollowsLatestChoice ==
    event.op = "select" =>
        /\ quiz_data = event.before.quiz_data
        /\ widgets.on
        /\ widgets.index = event.index
        /\ widgets.index \in 1..Len(Get(quiz_data, <<"options">>).v)
        /\ widgets.options = options_list(Get(quiz_data, <<"options">>))

C9_Witness ==
    /\ event.op = "select"
    /\ IsQuizRecord(quiz_data)
    /\ event.before.index # 0
    /\ widgets.index # event.before.index

\* the option key the user has selected
SelectedKey == Get(quiz_data, <<"options">>).v[widgets.index].k

\* C10: for a quiz record (option keys are single letters, as the data model
\* has them) and its selected option key the page reports "correct" exactly
\* when that key is the record's answer and "wrong" for any other key of the
\* record; the run that grades a selection calls the generation service zero
\* times and leaves the record as it was.
C10_GradingMatchesAnswer ==
    /\ (IsQuizRecord(quiz_data) /\ RadioShown /\ widgets.index # 0) =>
          /\ RightShown <=> Str(SelectedKey) = Get(quiz_data, <<"answer">>)
          /\ WrongShown <=> Str(SelectedKey) # Get(quiz_data, <<"answer">>)
    /\ event.op = "select" =>
          /\ RadioShown /\ widgets.index # 0
          /\ event.gen_calls = 0
          /\ quiz_data = event.before.quiz_data

C10_Witness ==
    /\ event.op = "select"
    /\ IsQuizRecord(quiz_data)
    /\ event.before.index # 0
    /\ Str(SelectedKey) = Get(quiz_data, <<"answer">>)
    /\ RightShown

====
